---- MODULE Spec2Model ----
(***************************************************************************)
(* A model of aurora_serverlessv2_savings_calculator.py: the batch run of  *)
(* main() over the regions, process_region() phase by phase, the catalog   *)
(* lookups, the telemetry reduction and the cost projection.               *)
(*                                                                         *)
(* Numbers: Python floats are modelled as exact rationals [n, d] in lowest *)
(* terms (d > 0); NaN, the value of a data-frame cell that was never set,  *)
(* is [n |-> 0, d |-> 0].  Strings are TLA+ strings, read character by     *)
(* character with SubSeq.                                                  *)
(***************************************************************************)
EXTENDS Integers, Sequences, FiniteSets, TLC

(***************************************************************************)
(* Rational arithmetic (the float arithmetic of the program, exact).       *)
(***************************************************************************)
Abs(k) == IF k < 0 THEN -k ELSE k

RECURSIVE Gcd(_, _)
Gcd(a, b) == IF b = 0 THEN a ELSE Gcd(b, a % b)

NaN == [n |-> 0, d |-> 0]

IsNaN(a) == a.d = 0

RNorm(num, den) ==
    LET s == IF den < 0 THEN -1 ELSE 1
        g == Gcd(Abs(num), Abs(den))
    IN  [n |-> (s * num) \div g, d |-> (s * den) \div g]

RInt(k) == [n |-> k, d |-> 1]

RMul(a, b) ==
    IF IsNaN(a) \/ IsNaN(b) THEN NaN
    ELSE LET g1 == Gcd(Abs(a.n), b.d)
             g2 == Gcd(Abs(b.n), a.d)
         IN  RNorm((a.n \div g1) * (b.n \div g2), (a.d \div g2) * (b.d \div g1))

RAdd(a, b) ==
    IF IsNaN(a) \/ IsNaN(b) THEN NaN
    ELSE LET g == Gcd(a.d, b.d)
         IN  RNorm(a.n * (b.d \div g) + b.n * (a.d \div g), (a.d \div g) * b.d)

RNeg(a) == [n |-> -a.n, d |-> a.d]

RSub(a, b) == RAdd(a, RNeg(b))

RDiv(a, b) == RMul(a, RNorm(b.d, b.n))

RLess(a, b) ==
    LET g == Gcd(a.d, b.d)
    IN  a.n * (b.d \div g) < b.n * (a.d \div g)

\* np.floor on a float
RFloor(a) == IF IsNaN(a) THEN NaN ELSE RInt(a.n \div a.d)

\* Series.fillna(0) on one cell
fillna0(a) == IF IsNaN(a) THEN RInt(0) ELSE a

RECURSIVE RSum(_)
RSum(s) == IF s = <<>> THEN RInt(0) ELSE RAdd(Head(s), RSum(Tail(s)))

\* Series.mean() of a non-empty numeric column
SeriesMean(s) == RDiv(RSum(s), RInt(Len(s)))

RECURSIVE SeriesMax(_)
SeriesMax(s) ==
    IF Len(s) = 1 THEN s[1]
    ELSE LET m == SeriesMax(Tail(s))
         IN  IF RLess(Head(s), m) THEN m ELSE Head(s)

(***************************************************************************)
(* Strings.                                                                *)
(***************************************************************************)
CharAt(s, i) == SubSeq(s, i, i)

\* str.startswith
StartsWith(s, p) == Len(p) <= Len(s) /\ SubSeq(s, 1, Len(p)) = p

\* str.find from position i (1-based); 0 when absent
RECURSIVE FindFrom(_, _, _)
FindFrom(s, p, i) ==
    IF i + Len(p) - 1 > Len(s) THEN 0
    ELSE IF SubSeq(s, i, i + Len(p) - 1) = p THEN i
    ELSE FindFrom(s, p, i + 1)

\* `p in s` for strings
Contains(s, p) == FindFrom(s, p, 1) # 0

\* str.replace(old, new), every occurrence, left to right
RECURSIVE StrReplace(_, _, _)
StrReplace(s, old, new) ==
    LET i == FindFrom(s, old, 1)
    IN  IF i = 0 THEN s
        ELSE SubSeq(s, 1, i - 1) \o new \o
             StrReplace(SubSeq(s, i + Len(old), Len(s)), old, new)

\* str.split(sep): the sequence of fields
RECURSIVE StrSplit(_, _)
StrSplit(s, sep) ==
    LET i == FindFrom(s, sep, 1)
    IN  IF i = 0 THEN <<s>>
        ELSE <<SubSeq(s, 1, i - 1)>> \o StrSplit(SubSeq(s, i + Len(sep), Len(s)), sep)

\* sep.join(parts)
RECURSIVE StrJoin(_, _)
StrJoin(parts, sep) ==
    IF parts = <<>> THEN ""
    ELSE IF Len(parts) = 1 THEN parts[1]
    ELSE parts[1] \o sep \o StrJoin(Tail(parts), sep)

\* parts[:k]
Take(parts, k) == SubSeq(parts, 1, IF k < Len(parts) THEN k ELSE Len(parts))

Digits == <<"0", "1", "2", "3", "4", "5", "6", "7", "8", "9">>

IsDigit(c) == \E k \in 1..10 : Digits[k] = c

DigitVal(c) == (CHOOSE k \in 1..10 : Digits[k] = c) - 1

\* the code point order of the characters that version strings are made of
Ord(c) == IF c = "." THEN 46 ELSE IF IsDigit(c) THEN 48 + DigitVal(c) ELSE 97

IsDigits(s) == Len(s) > 0 /\ \A i \in 1..Len(s) : IsDigit(CharAt(s, i))

RECURSIVE DigitsVal(_)
DigitsVal(s) ==
    IF s = "" THEN 0
    ELSE 10 * DigitsVal(SubSeq(s, 1, Len(s) - 1)) + DigitVal(CharAt(s, Len(s)))

RECURSIVE Pow10(_)
Pow10(k) == IF k = 0 THEN 1 ELSE 10 * Pow10(k - 1)

\* int(s) succeeds
IntOk(s) == IsDigits(s)

\* float(s) succeeds: digits, optionally a point and more digits
FloatOk(s) ==
    LET f == StrSplit(s, ".")
    IN  \/ Len(f) = 1 /\ IsDigits(f[1])
        \/ Len(f) = 2 /\ IsDigits(f[1]) /\ IsDigits(f[2])

\* float(s)
ParseFloat(s) ==
    LET f == StrSplit(s, ".")
    IN  IF Len(f) = 1 THEN RInt(DigitsVal(f[1]))
        ELSE RAdd(RInt(DigitsVal(f[1])), RNorm(DigitsVal(f[2]), Pow10(Len(f[2]))))

\* s < t on Python strings: lexicographic by code point, a proper prefix is smaller
RECURSIVE StrLess(_, _)
StrLess(s, t) ==
    IF t = "" THEN FALSE
    ELSE IF s = "" THEN TRUE
    ELSE IF CharAt(s, 1) = CharAt(t, 1)
         THEN StrLess(SubSeq(s, 2, Len(s)), SubSeq(t, 2, Len(t)))
    ELSE Ord(CharAt(s, 1)) < Ord(CharAt(t, 1))

\* dict.get(key, default)
Get(d, key, default) == IF key \in DOMAIN d THEN d[key] ELSE default

\* str(k) for k >= 0
RECURSIVE IntToStr(_)
IntToStr(k) == IF k < 10 THEN Digits[k + 1] ELSE IntToStr(k \div 10) \o Digits[(k % 10) + 1]

\* int(s)
ParseInt(s) == DigitsVal(s)

\* None, as a cell or dictionary value
None == "<None>"

(***************************************************************************)
(* Program constants.                                                      *)
(***************************************************************************)
SAVINGS_PLAN_DISCOUNT == ParseFloat("0.35")
HEADROOM_MULTIPLIER == ParseFloat("1.50")
HOURS_PER_MONTH == 730
SECONDS_PER_MONTH == 2628000
ACU_PER_VCPU == 4

AURORA_MYSQL_MIN_VERSION == "3."
AURORA_MYSQL_EXTENDED_SUPPORT == "2."
AURORA_POSTGRESQL_MIN_VERSIONS == ("13" :> "13.6") @@ ("14" :> "14.3") @@ ("15" :> "15.2")
AURORA_POSTGRESQL_EXTENDED_SUPPORT == {11, 12, 13}

VARIABLES
    env,              \* the outside world of one run: regions, inventories, catalog, telemetry
    pc,               \* where the run is
    regions,          \* main: the region list
    ri,               \* main: index of the region being processed
    df,               \* process_region: the data frame, a sequence of rows
    pricing_configs,  \* process_region: variant -> engine -> prices
    idx,              \* process_region: cursor of the running row loop
    metrics,          \* process_region: the metrics list
    ret,              \* what process_region returned to main
    all_results,      \* main: the non-empty frames
    combined_df,      \* main: the concatenated output
    catalog_calls,    \* every Filters list sent to the pricing catalog, in order
    cw_calls,         \* every <<region, db_id, metric>> asked of the telemetry service
    failed            \* the regions whose processing ended in the except handler

vars == <<env, pc, regions, ri, df, pricing_configs, idx, metrics, ret,
          all_results, combined_df, catalog_calls, cw_calls, failed>>

(***************************************************************************)
(* The pricing catalog: pricing_client.get_products with TERM_MATCH        *)
(* filters and MaxResults=1.  A product is [attributes, USD].              *)
(***************************************************************************)
Filter(field, value) == [Field |-> field, Value |-> value]

TermMatch(product, f) ==
    /\ f.Field \in DOMAIN product.attributes
    /\ product.attributes[f.Field] = f.Value

MatchesAll(product, Filters) == \A i \in 1..Len(Filters) : TermMatch(product, Filters[i])

\* the response of get_products(ServiceCode='AmazonRDS', Filters=Filters, MaxResults=1)
get_products(Filters) ==
    IF Filters \in env.catalog_down
    THEN [raise |-> TRUE, PriceList |-> <<>>]
    ELSE [raise |-> FALSE,
          PriceList |-> Take(SelectSeq(env.catalog, LAMBDA p : MatchesAll(p, Filters)), 1)]

\* lines 75-83
storage_filters(region_name, database_engine, storage_type) ==
    << Filter("regionCode", region_name),
       Filter("productFamily", "Database Storage"),
       Filter("databaseEngine", database_engine),
       Filter("deploymentOption", "Serverless") >> \o
    (IF storage_type = "io-optimized"
     THEN << Filter("storageConfiguration", "Aurora I/O-Optimized") >> ELSE << >>)

\* lines 100-105
io_filters(region_name) ==
    << Filter("regionCode", region_name),
       Filter("productFamily", "System Operation"),
       Filter("databaseEngine", "Any"),
       Filter("group", "Aurora I/O Operation") >>

\* lines 118-126
acu_filters(region_name, database_engine, storage_type) ==
    << Filter("regionCode", region_name),
       Filter("databaseEngine", database_engine),
       Filter("productFamily", "ServerlessV2") >> \o
    (IF storage_type = "io-optimized"
     THEN << Filter("storageConfiguration", "Aurora I/O-Optimized") >> ELSE << >>)

\* A try block that reads one price: 0.0 unless the call returns, the list is
\* non-empty and the price parses (lines 85-95, 98-115).
price_or_zero(Filters) ==
    LET resp == get_products(Filters)
    IN  IF resp.raise THEN RInt(0)
        ELSE IF resp.PriceList = << >> THEN RInt(0)
        ELSE IF ~FloatOk(resp.PriceList[1].USD) THEN RInt(0)
        ELSE ParseFloat(resp.PriceList[1].USD)

\* a savings-plan unit price that forgets the discount
price_acu_sp_undiscounted(price_acu) == price_acu

\* the savings-plan unit price, line 142
price_acu_sp_of(price_acu) == RMul(price_acu, RSub(RInt(1), SAVINGS_PLAN_DISCOUNT))

\* The result when the ServerlessV2 lookup has no entry or raises, lines 130-131, 145-147
acu_unavailable(price_iops, price_storage) == << RInt(0), RInt(0), RInt(0), RInt(0) >>

\* get_aurora_serverless_pricing: <<ACU price, IOPS price, Savings Plan ACU price, storage price>>
get_aurora_serverless_pricing(region_name, database_engine, storage_type) ==
    LET price_storage == price_or_zero(storage_filters(region_name, database_engine, storage_type))
        price_iops == IF storage_type = "standard"
                      THEN price_or_zero(io_filters(region_name)) ELSE RInt(0)
        acu_response == get_products(acu_filters(region_name, database_engine, storage_type))
    IN  IF acu_response.raise THEN acu_unavailable(price_iops, price_storage)
        ELSE IF acu_response.PriceList = << >> THEN acu_unavailable(price_iops, price_storage)
        ELSE IF ~FloatOk(acu_response.PriceList[1].USD)
             THEN acu_unavailable(price_iops, price_storage)
        ELSE LET price_acu == ParseFloat(acu_response.PriceList[1].USD)
             IN  << price_acu, price_iops, price_acu_sp_of(price_acu), price_storage >>

\* the Filters lists get_aurora_serverless_pricing sends, in order
serverless_pricing_calls(region_name, database_engine, storage_type) ==
    << storage_filters(region_name, database_engine, storage_type) >> \o
    (IF storage_type = "standard" THEN << io_filters(region_name) >> ELSE << >>) \o
    << acu_filters(region_name, database_engine, storage_type) >>

\* lines 163-169
hourly_filters(region_name, instance_type, database_engine, deployment_option) ==
    << Filter("instanceType", instance_type),
       Filter("databaseEngine", database_engine),
       Filter("licenseModel", "No License required"),
       Filter("deploymentOption", deployment_option),
       Filter("regionCode", region_name) >>

\* get_rds_instance_hourly_price: [raise, value]; it raises when the call does,
\* when PriceList is empty (IndexError) and when a number does not parse
get_rds_instance_hourly_price(region_name, instance_type, database_engine, deployment_option) ==
    LET response == get_products(hourly_filters(region_name, instance_type,
                                                database_engine, deployment_option))
        none == [raise |-> TRUE, value |-> << >>]
    IN  IF response.raise THEN none
        ELSE IF response.PriceList = << >> THEN none
        ELSE LET pricing_data == response.PriceList[1]
                 a == pricing_data.attributes
                 memory == StrReplace(a.memory, " GiB", "")
             IN  IF ~(FloatOk(a.vcpu) /\ FloatOk(memory) /\ FloatOk(pricing_data.USD))
                 THEN none
                 ELSE [raise |-> FALSE,
                       value |-> [vcpu |-> ParseFloat(a.vcpu),
                                  memory |-> ParseFloat(memory),
                                  pricePerUnit |-> ParseFloat(pricing_data.USD),
                                  instanceType |-> a.instanceType,
                                  databaseEngine |-> a.databaseEngine,
                                  deploymentOption |-> a.deploymentOption]]

(***************************************************************************)
(* Telemetry: get_cloudwatch_metrics returns the 'Maximum' column of the   *)
(* datapoints (an empty frame when there are none), or raises.             *)
(***************************************************************************)
get_cloudwatch_metrics(region, db_id, metric_name) == env.cw[region][db_id][metric_name]

(***************************************************************************)
(* create_instance_dataframe.                                              *)
(***************************************************************************)
\* lines 236-255: [raise, needs_upgrade, extended_support]; int() of a major
\* version that is not a number raises ValueError
version_flags(engine, version) ==
    IF engine = "aurora-mysql"
    THEN [raise |-> FALSE,
          needs_upgrade |-> ~StartsWith(version, AURORA_MYSQL_MIN_VERSION),
          extended_support |-> StartsWith(version, AURORA_MYSQL_EXTENDED_SUPPORT)]
    ELSE IF engine = "aurora-postgresql"
    THEN LET parts == StrSplit(version, ".")
         IN  IF ~IntOk(parts[1])
             THEN [raise |-> TRUE, needs_upgrade |-> FALSE, extended_support |-> FALSE]
             ELSE LET major == ParseInt(parts[1])
                      major_minor == StrJoin(Take(parts, 2), ".")
                  IN  [raise |-> FALSE,
                       needs_upgrade |->
                           IF IntToStr(major) \in DOMAIN AURORA_POSTGRESQL_MIN_VERSIONS
                           THEN StrLess(major_minor,
                                        AURORA_POSTGRESQL_MIN_VERSIONS[IntToStr(major)])
                           ELSE TRUE,
                       extended_support |-> major \in AURORA_POSTGRESQL_EXTENDED_SUPPORT]
    ELSE [raise |-> FALSE, needs_upgrade |-> FALSE, extended_support |-> FALSE]

\* lines 257-267
instance_data(instance) ==
    LET engine == Get(instance, "Engine", "")
        version == Get(instance, "EngineVersion", "")
        flags == version_flags(engine, version)
    IN  [DBInstanceIdentifier |-> Get(instance, "DBInstanceIdentifier", ""),
         DBInstanceClass |-> Get(instance, "DBInstanceClass", ""),
         Engine |-> engine,
         EngineVersion |-> version,
         NeedsUpgrade |-> flags.needs_upgrade,
         ExtendedSupport |-> flags.extended_support,
         DBInstanceStatus |-> Get(instance, "DBInstanceStatus", ""),
         AllocatedStorage |-> Get(instance, "AllocatedStorage", RInt(0)),
         SecondaryAvailabilityZone |-> Get(instance, "SecondaryAvailabilityZone", None)]

\* [raise, df]
create_instance_dataframe(instances) ==
    IF \E i \in 1..Len(instances) :
           version_flags(Get(instances[i], "Engine", ""),
                         Get(instances[i], "EngineVersion", "")).raise
    THEN [raise |-> TRUE, df |-> << >>]
    ELSE [raise |-> FALSE, df |-> [i \in 1..Len(instances) |-> instance_data(instances[i])]]

(***************************************************************************)
(* process_region, phase by phase.                                         *)
(***************************************************************************)
required_engines == {"aurora-mysql", "mysql", "aurora-postgresql", "postgresql"}

\* lines 292-294
qualifies(db) == db.Engine \in required_engines /\ db.DBInstanceClass \notin {"db.serverless"}

aurora_engines == <<"Aurora MySQL", "Aurora PostgreSQL">>

\* lines 315-321 for one engine: its entry in each of the three configurations
engine_pricing(region, engine) ==
    LET std == get_aurora_serverless_pricing(region, engine, "standard")
        io == get_aurora_serverless_pricing(region, engine, "io-optimized")
    IN  [standard |-> [acu |-> std[1], iops |-> std[2], storage |-> std[4]],
         savings_plan |-> [acu |-> std[3], iops |-> std[2], storage |-> std[4]],
         io_optimized |-> [acu |-> io[1], iops |-> RInt(0), storage |-> io[4]]]

\* lines 307-321
aurora_pricing_configs(region) ==
    [v \in {"standard", "io_optimized", "savings_plan"} |->
        [e \in {"Aurora MySQL", "Aurora PostgreSQL"} |-> engine_pricing(region, e)[v]]]

\* lines 325-330
engine_map == ("mysql" :> "MySQL") @@ ("aurora-mysql" :> "Aurora MySQL") @@
              ("postgresql" :> "PostgreSQL") @@ ("aurora-postgresql" :> "Aurora PostgreSQL")

\* line 332
is_multi_az(row) ==
    row.SecondaryAvailabilityZone # None /\ row.SecondaryAvailabilityZone # ""

\* line 333
deployment_option_of(row) == IF is_multi_az(row) THEN "Multi-AZ" ELSE "Single-AZ"

\* lines 337-342: the lookup made for one row
row_price_filters(region, row) ==
    hourly_filters(region, row.DBInstanceClass, Get(engine_map, row.Engine, "MySQL"),
                   deployment_option_of(row))

row_price_info(region, row) ==
    get_rds_instance_hourly_price(region, row.DBInstanceClass,
                                  Get(engine_map, row.Engine, "MySQL"),
                                  deployment_option_of(row))

\* lines 344-350: the cells written when the lookup returned
priced_cells(price_info) ==
    [pricePerUnit |-> price_info.pricePerUnit,
     deploymentOption |-> price_info.deploymentOption,
     vcpu |-> price_info.vcpu,
     memory |-> price_info.memory,
     pricePerMonth |-> RMul(price_info.pricePerUnit, RInt(HOURS_PER_MONTH))]

\* lines 353-355: the cells written by the except handler
unpriced_cells(deployment_option) ==
    [pricePerUnit |-> RInt(0),
     deploymentOption |-> deployment_option,
     vcpu |-> RInt(0),
     memory |-> RInt(0),
     pricePerMonth |-> RInt(0)]

\* the CPU entry without the empty-frame branch: the mean of no rows is NaN
cpu_metrics_unguarded(db_id, cpu_df) ==
    [DBInstanceIdentifier |-> db_id,
     meanCPU |-> SeriesMean(cpu_df),
     maxCPU |-> IF cpu_df = << >> THEN NaN ELSE SeriesMax(cpu_df)]

\* lines 364-375: the CPU part of one metrics entry
cpu_metrics(db_id, cpu_df) ==
    IF cpu_df # << >>
    THEN [DBInstanceIdentifier |-> db_id,
          meanCPU |-> SeriesMean(cpu_df), maxCPU |-> SeriesMax(cpu_df)]
    ELSE [DBInstanceIdentifier |-> db_id, meanCPU |-> RInt(0), maxCPU |-> RInt(0)]

\* an engine test that samples read and write operations for every engine
samples_io_always(engine) == TRUE

\* line 378
samples_io(engine) == engine \notin {"aurora-mysql", "aurora-postgresql"}

\* lines 382-390: the I/O part of one metrics entry
io_metrics(sampled, read_iops_df, write_iops_df) ==
    IF sampled
    THEN [meanReadIOPS |-> IF read_iops_df # << >> THEN SeriesMean(read_iops_df) ELSE RInt(0),
          meanWriteIOPS |-> IF write_iops_df # << >> THEN SeriesMean(write_iops_df) ELSE RInt(0)]
    ELSE [meanReadIOPS |-> RInt(0), meanWriteIOPS |-> RInt(0)]

\* line 377: df[df['DBInstanceIdentifier'] == db_id]['Engine'].iloc[0]
engine_of(frame, db_id) ==
    SelectSeq(frame, LAMBDA r : r.DBInstanceIdentifier = db_id)[1].Engine

metric_columns == {"meanCPU", "maxCPU", "meanReadIOPS", "meanWriteIOPS"}

\* line 393: pd.merge(df, metrics_df, on='DBInstanceIdentifier', how='left')
RECURSIVE merge_left(_, _)
merge_left(frame, metrics_df) ==
    IF frame = << >> THEN << >>
    ELSE LET row == Head(frame)
             hits == SelectSeq(metrics_df,
                               LAMBDA m : m.DBInstanceIdentifier = row.DBInstanceIdentifier)
             joined == IF hits = << >>
                       THEN << row @@ [c \in metric_columns |-> NaN] >>
                       ELSE [k \in 1..Len(hits) |->
                                row @@ [c \in metric_columns |-> hits[k][c]]]
         IN  joined \o merge_left(Tail(frame), metrics_df)

\* acu_usage rounded up instead of down before the half unit is added
acu_usage_ceil(meanCPU, vcpu) ==
    RAdd(RNeg(RFloor(RNeg(RDiv(RMul(RMul(RMul(fillna0(meanCPU), HEADROOM_MULTIPLIER), vcpu),
                                    RInt(ACU_PER_VCPU)),
                               RInt(100))))),
         ParseFloat("0.5"))

\* lines 397-398
acu_usage_of(meanCPU, vcpu) ==
    RAdd(RFloor(RDiv(RMul(RMul(RMul(fillna0(meanCPU), HEADROOM_MULTIPLIER), vcpu),
                          RInt(ACU_PER_VCPU)),
                     RInt(100))),
         ParseFloat("0.5"))

\* line 399
IOPS_of(meanReadIOPS, meanWriteIOPS) ==
    RMul(RAdd(fillna0(meanReadIOPS), fillna0(meanWriteIOPS)), HEADROOM_MULTIPLIER)

\* line 403
aurora_engine_of(row) ==
    IF Contains(row.Engine, "mysql") THEN "Aurora MySQL" ELSE "Aurora PostgreSQL"

\* a multiplier that ignores the topology
multi_az_multiplier_single(row) == 1

\* line 404
multi_az_multiplier_of(row) == IF row.deploymentOption = "Multi-AZ" THEN 2 ELSE 1

\* lines 409, 416, 422
acu_cost_of(acu_usage, acu_price, multi_az_multiplier) ==
    RMul(RMul(RMul(acu_usage, acu_price), RInt(HOURS_PER_MONTH)), RInt(multi_az_multiplier))

\* lines 410, 423
iops_cost_of(IOPS, iops_price) == RMul(RMul(IOPS, RInt(SECONDS_PER_MONTH)), iops_price)

\* lines 411, 417, 424
storage_cost_of(storage_gb, storage_price) == RMul(storage_gb, storage_price)

\* lines 407-425: the three monthly costs of one row
monthly_costs(row, configs) ==
    LET aurora_engine == aurora_engine_of(row)
        m == multi_az_multiplier_of(row)
        std_pricing == configs["standard"][aurora_engine]
        io_pricing == configs["io_optimized"][aurora_engine]
        sp_pricing == configs["savings_plan"][aurora_engine]
    IN  [aurora_standard_monthly |->
             RAdd(RAdd(acu_cost_of(row.acu_usage, std_pricing.acu, m),
                       iops_cost_of(row.IOPS, std_pricing.iops)),
                  storage_cost_of(row.AllocatedStorage, std_pricing.storage)),
         aurora_io_optimized_monthly |->
             RAdd(acu_cost_of(row.acu_usage, io_pricing.acu, m),
                  storage_cost_of(row.AllocatedStorage, io_pricing.storage)),
         aurora_savings_plan_monthly |->
             RAdd(RAdd(acu_cost_of(row.acu_usage, sp_pricing.acu, m),
                       iops_cost_of(row.IOPS, sp_pricing.iops)),
                  storage_cost_of(row.AllocatedStorage, sp_pricing.storage))]

\* lines 428-430
savings_of(row) ==
    [savings_standard |-> RSub(row.pricePerMonth, row.aurora_standard_monthly),
     savings_io_optimized |-> RSub(row.pricePerMonth, row.aurora_io_optimized_monthly),
     savings_plan |-> RSub(row.pricePerMonth, row.aurora_savings_plan_monthly)]

monthly_columns ==
    <<"aurora_standard_monthly", "aurora_io_optimized_monthly", "aurora_savings_plan_monthly">>

savings_columns == <<"savings_standard", "savings_io_optimized", "savings_plan">>

\* an argmin that keeps the last of equal minima
RECURSIVE idxmin_last(_, _, _, _)
idxmin_last(row, cols, i, best) ==
    IF i > Len(cols) THEN cols[best]
    ELSE idxmin_last(row, cols, i + 1,
                     IF RLess(row[cols[best]], row[cols[i]]) THEN best ELSE i)

\* DataFrame.idxmin(axis=1): the label of the first column holding the row minimum
RECURSIVE idxmin_from(_, _, _, _)
idxmin_from(row, cols, i, best) ==
    IF i > Len(cols) THEN cols[best]
    ELSE idxmin_from(row, cols, i + 1,
                     IF RLess(row[cols[i]], row[cols[best]]) THEN i ELSE best)

idxmin(row, cols) == idxmin_from(row, cols, 2, 1)

\* DataFrame.max(axis=1)
row_max(row, cols) == SeriesMax([i \in 1..Len(cols) |-> row[cols[i]]])

\* lines 433-435
best_option_of(row) ==
    StrReplace(StrReplace(idxmin(row, monthly_columns), "aurora_", ""), "_monthly", "")

\* the savings of the first variant in place of the row maximum
max_savings_first(row) == row[savings_columns[1]]

\* line 436
max_savings_of(row) == row_max(row, savings_columns)

(***************************************************************************)
(* The run.                                                                *)
(***************************************************************************)
region_now == regions[ri]

\* process_region's locals once it has returned
LocalsGone ==
    /\ df' = << >>
    /\ pricing_configs' = << >>
    /\ metrics' = << >>
    /\ idx' = 0

\* main, lines 449-453
GetAllRdsRegions ==
    /\ pc = "main"
    /\ regions' = env.regions
    /\ ri' = 1
    /\ pc' = "loop"
    /\ UNCHANGED <<env, df, pricing_configs, idx, metrics, ret, all_results,
                   combined_df, catalog_calls, cw_calls, failed>>

\* process_region, lines 283-304: the inventory call, the filter, the first frame
DescribeDBInstances ==
    /\ pc = "loop"
    /\ ri <= Len(regions)
    /\ LET response == env.rds[region_now]
           instances == SelectSeq(response.DBInstances, qualifies)
           created == create_instance_dataframe(instances)
       IN  IF response.raise
           THEN pc' = "except" /\ UNCHANGED <<df, ret>>
           ELSE IF instances = << >>
           THEN pc' = "returned" /\ ret' = << >> /\ UNCHANGED df
           ELSE IF created.raise
           THEN pc' = "except" /\ UNCHANGED <<df, ret>>
           ELSE /\ df' = [i \in 1..Len(created.df) |->
                             created.df[i] @@ [Region |-> region_now]]
                /\ pc' = "aurora_pricing"
                /\ UNCHANGED ret
    /\ UNCHANGED <<env, regions, ri, pricing_configs, idx, metrics, all_results,
                   combined_df, catalog_calls, cw_calls, failed>>

\* process_region, lines 306-321
GetAuroraPricing ==
    /\ pc = "aurora_pricing"
    /\ pricing_configs' = aurora_pricing_configs(region_now)
    /\ catalog_calls' = catalog_calls \o
           serverless_pricing_calls(region_now, aurora_engines[1], "standard") \o
           serverless_pricing_calls(region_now, aurora_engines[1], "io-optimized") \o
           serverless_pricing_calls(region_now, aurora_engines[2], "standard") \o
           serverless_pricing_calls(region_now, aurora_engines[2], "io-optimized")
    /\ idx' = 1
    /\ pc' = "instance_pricing"
    /\ UNCHANGED <<env, regions, ri, df, metrics, ret, all_results, combined_df,
                   cw_calls, failed>>

\* the row loops end after the last row
NextRow(next_pc) ==
    IF idx = Len(df) THEN idx' = 1 /\ pc' = next_pc ELSE idx' = idx + 1 /\ pc' = pc

\* a lookup kept for the region's pass: a row whose class, engine and topology
\* were already looked up reuses the answer and sends nothing to the catalog
InstancePriceCached ==
    /\ pc = "instance_pricing"
    /\ LET price_info == row_price_info(region_now, df[idx])
           asked == row_price_filters(region_now, df[idx])
       IN  /\ ~price_info.raise
           /\ df' = [df EXCEPT ![idx] = priced_cells(price_info.value) @@ @]
           /\ catalog_calls' = IF \E i \in DOMAIN catalog_calls : catalog_calls[i] = asked
                               THEN catalog_calls
                               ELSE Append(catalog_calls, asked)
    /\ NextRow("metrics")
    /\ UNCHANGED <<env, regions, ri, pricing_configs, metrics, ret, all_results,
                   combined_df, cw_calls, failed>>

\* process_region, lines 324-350: one row whose hourly-price lookup returned
InstancePriceFound ==
    /\ pc = "instance_pricing"
    /\ LET price_info == row_price_info(region_now, df[idx])
       IN  /\ ~price_info.raise
           /\ df' = [df EXCEPT ![idx] = priced_cells(price_info.value) @@ @]
    /\ catalog_calls' = Append(catalog_calls, row_price_filters(region_now, df[idx]))
    /\ NextRow("metrics")
    /\ UNCHANGED <<env, regions, ri, pricing_configs, metrics, ret, all_results,
                   combined_df, cw_calls, failed>>

\* a failed lookup that is left to the handler around the whole region
InstancePriceEscapes ==
    /\ pc = "instance_pricing"
    /\ row_price_info(region_now, df[idx]).raise
    /\ catalog_calls' = Append(catalog_calls, row_price_filters(region_now, df[idx]))
    /\ pc' = "except"
    /\ UNCHANGED <<env, regions, ri, df, pricing_configs, idx, metrics, ret, all_results,
                   combined_df, cw_calls, failed>>

\* process_region, lines 324-342, 351-355: one row whose lookup raised
InstancePriceExcept ==
    /\ pc = "instance_pricing"
    /\ row_price_info(region_now, df[idx]).raise
    /\ df' = [df EXCEPT ![idx] = unpriced_cells(deployment_option_of(@)) @@ @]
    /\ catalog_calls' = Append(catalog_calls, row_price_filters(region_now, df[idx]))
    /\ NextRow("metrics")
    /\ UNCHANGED <<env, regions, ri, pricing_configs, metrics, ret, all_results,
                   combined_df, cw_calls, failed>>

\* process_region, lines 362-390: the telemetry of one instance
SampleMetrics ==
    /\ pc = "metrics"
    /\ LET db_id == df[idx].DBInstanceIdentifier
           cpu == get_cloudwatch_metrics(region_now, db_id, "CPUUtilization")
           sampled == samples_io(engine_of(df, db_id))
           rd == get_cloudwatch_metrics(region_now, db_id, "ReadIOPS")
           wr == get_cloudwatch_metrics(region_now, db_id, "WriteIOPS")
       IN  IF cpu.raise
           THEN /\ cw_calls' = Append(cw_calls, <<region_now, db_id, "CPUUtilization">>)
                /\ pc' = "except"
                /\ UNCHANGED <<metrics, idx>>
           ELSE IF sampled /\ rd.raise
           THEN /\ cw_calls' = cw_calls \o << <<region_now, db_id, "CPUUtilization">>,
                                              <<region_now, db_id, "ReadIOPS">> >>
                /\ pc' = "except"
                /\ UNCHANGED <<metrics, idx>>
           ELSE IF sampled /\ wr.raise
           THEN /\ cw_calls' = cw_calls \o << <<region_now, db_id, "CPUUtilization">>,
                                              <<region_now, db_id, "ReadIOPS">>,
                                              <<region_now, db_id, "WriteIOPS">> >>
                /\ pc' = "except"
                /\ UNCHANGED <<metrics, idx>>
           ELSE /\ cw_calls' = cw_calls \o
                       << <<region_now, db_id, "CPUUtilization">> >> \o
                       (IF sampled THEN << <<region_now, db_id, "ReadIOPS">>,
                                           <<region_now, db_id, "WriteIOPS">> >>
                        ELSE << >>)
                /\ metrics' = Append(metrics,
                       io_metrics(sampled, rd.Maximum, wr.Maximum) @@
                       cpu_metrics(db_id, cpu.Maximum))
                /\ NextRow("usage")
    /\ UNCHANGED <<env, regions, ri, df, pricing_configs, ret, all_results,
                   combined_df, catalog_calls, failed>>

\* process_region, lines 392-399: the merge and the two vectorised columns
ComputeUsage ==
    /\ pc = "usage"
    /\ LET merged == merge_left(df, metrics)
       IN  df' = [i \in 1..Len(merged) |->
                     [acu_usage |-> acu_usage_of(merged[i].meanCPU, merged[i].vcpu),
                      IOPS |-> IOPS_of(merged[i].meanReadIOPS, merged[i].meanWriteIOPS)]
                     @@ merged[i]]
    /\ idx' = 1
    /\ pc' = "costs"
    /\ UNCHANGED <<env, regions, ri, pricing_configs, metrics, ret, all_results,
                   combined_df, catalog_calls, cw_calls, failed>>

\* process_region, lines 402-425: the three monthly costs of one row
CostRow ==
    /\ pc = "costs"
    /\ df' = [df EXCEPT ![idx] = monthly_costs(@, pricing_configs) @@ @]
    /\ NextRow("savings")
    /\ UNCHANGED <<env, regions, ri, pricing_configs, metrics, ret, all_results,
                   combined_df, catalog_calls, cw_calls, failed>>

\* lines 427-436 on one row
with_savings(row) ==
    LET s == savings_of(row) @@ row
    IN  [best_option |-> best_option_of(s), max_savings |-> max_savings_of(s)] @@ s

\* process_region, lines 427-438: savings, best option, return df
SavingsAndReturn ==
    /\ pc = "savings"
    /\ ret' = [i \in 1..Len(df) |-> with_savings(df[i])]
    /\ pc' = "returned"
    /\ LocalsGone
    /\ UNCHANGED <<env, regions, ri, all_results, combined_df, catalog_calls,
                   cw_calls, failed>>

\* a handler that ends the whole run instead of returning an empty frame
RegionExceptAborts ==
    /\ pc = "except"
    /\ failed' = failed \cup {region_now}
    /\ ret' = << >>
    /\ pc' = "done"
    /\ LocalsGone
    /\ UNCHANGED <<env, regions, ri, all_results, combined_df, catalog_calls, cw_calls>>

\* process_region, lines 440-442: the handler around the whole body
RegionExcept ==
    /\ pc = "except"
    /\ failed' = failed \cup {region_now}
    /\ ret' = << >>
    /\ pc' = "returned"
    /\ LocalsGone
    /\ UNCHANGED <<env, regions, ri, all_results, combined_df, catalog_calls, cw_calls>>

\* main, lines 454-457: keep a non-empty frame, go on to the next region
MainCollect ==
    /\ pc = "returned"
    /\ all_results' = IF ret # << >> THEN Append(all_results, ret) ELSE all_results
    /\ ret' = << >>
    /\ ri' = ri + 1
    /\ pc' = "loop"
    /\ UNCHANGED <<env, regions, df, pricing_configs, idx, metrics, combined_df,
                   catalog_calls, cw_calls, failed>>

\* pd.concat(frames, ignore_index=True)
RECURSIVE concat(_)
concat(frames) == IF frames = << >> THEN << >> ELSE Head(frames) \o concat(Tail(frames))

\* main, lines 459-464: the combined output (nothing when no region had rows)
MainFinish ==
    /\ pc = "loop"
    /\ ri > Len(regions)
    /\ combined_df' = IF all_results = << >> THEN << >> ELSE concat(all_results)
    /\ pc' = "done"
    /\ UNCHANGED <<env, regions, ri, df, pricing_configs, idx, metrics, ret,
                   all_results, catalog_calls, cw_calls, failed>>

Next ==
    \/ GetAllRdsRegions
    \/ DescribeDBInstances
    \/ GetAuroraPricing
    \/ InstancePriceFound
    \/ InstancePriceExcept
    \/ SampleMetrics
    \/ ComputeUsage
    \/ CostRow
    \/ SavingsAndReturn
    \/ RegionExcept
    \/ MainCollect
    \/ MainFinish

(***************************************************************************)
(* The outside worlds a run is checked in.  A world fixes what every       *)
(* service answers: the region list, each region's inventory (or that the  *)
(* call fails), the catalog's products and the lookups that fail, and each *)
(* instance's datapoints (or that the telemetry call fails).               *)
(***************************************************************************)
MaxRegions == 3
MaxInstances == 2
MaxDatapoints == 2

RegionNames == <<"us-east-1", "eu-west-1", "ap-south-1", "sa-east-1", "ca-central-1">>

Range(s) == {s[i] : i \in 1..Len(s)}

\* every sequence over S of length 0..k
RECURSIVE SeqsUpTo(_, _)
SeqsUpTo(S, k) ==
    IF k = 0 THEN {<< >>}
    ELSE LET shorter == SeqsUpTo(S, k - 1)
         IN  shorter \cup {Append(q, e) : q \in {r \in shorter : Len(r) = k - 1}, e \in S}

\* -- catalog products ----------------------------------------------------
AcuProduct(region, engine, usd) ==
    [attributes |-> [regionCode |-> region, databaseEngine |-> engine,
                     productFamily |-> "ServerlessV2"],
     USD |-> usd]

AcuIoProduct(region, engine, usd) ==
    [attributes |-> [regionCode |-> region, databaseEngine |-> engine,
                     productFamily |-> "ServerlessV2",
                     storageConfiguration |-> "Aurora I/O-Optimized"],
     USD |-> usd]

StorageProduct(region, engine, usd) ==
    [attributes |-> [regionCode |-> region, databaseEngine |-> engine,
                     productFamily |-> "Database Storage",
                     deploymentOption |-> "Serverless"],
     USD |-> usd]

StorageIoProduct(region, engine, usd) ==
    [attributes |-> [regionCode |-> region, databaseEngine |-> engine,
                     productFamily |-> "Database Storage",
                     deploymentOption |-> "Serverless",
                     storageConfiguration |-> "Aurora I/O-Optimized"],
     USD |-> usd]

IoProduct(region, usd) ==
    [attributes |-> [regionCode |-> region, databaseEngine |-> "Any",
                     productFamily |-> "System Operation",
                     group |-> "Aurora I/O Operation"],
     USD |-> usd]

InstanceProduct(region, type, engine, deployment, vcpu, memory, usd) ==
    [attributes |-> [regionCode |-> region, instanceType |-> type,
                     databaseEngine |-> engine, licenseModel |-> "No License required",
                     deploymentOption |-> deployment, vcpu |-> vcpu, memory |-> memory],
     USD |-> usd]

\* On-demand instances: the provisioned engines in both topologies, the Aurora
\* engines Single-AZ only (the catalog lists no Multi-AZ Aurora instance).
InstanceProducts(region) ==
    << InstanceProduct(region, "db.r5.large", "MySQL", "Single-AZ", "2", "16 GiB", "0.25"),
       InstanceProduct(region, "db.r5.large", "MySQL", "Multi-AZ", "2", "16 GiB", "0.5"),
       InstanceProduct(region, "db.r5.xlarge", "MySQL", "Single-AZ", "4", "32 GiB", "0.5"),
       InstanceProduct(region, "db.r5.xlarge", "MySQL", "Multi-AZ", "4", "32 GiB", "1.0"),
       InstanceProduct(region, "db.r5.large", "PostgreSQL", "Single-AZ", "2", "16 GiB", "0.25"),
       InstanceProduct(region, "db.r5.large", "PostgreSQL", "Multi-AZ", "2", "16 GiB", "0.5"),
       InstanceProduct(region, "db.r5.xlarge", "PostgreSQL", "Single-AZ", "4", "32 GiB", "0.5"),
       InstanceProduct(region, "db.r5.xlarge", "PostgreSQL", "Multi-AZ", "4", "32 GiB", "1.0"),
       InstanceProduct(region, "db.r5.large", "Aurora MySQL", "Single-AZ", "2", "16 GiB", "0.29"),
       InstanceProduct(region, "db.r5.xlarge", "Aurora MySQL", "Single-AZ", "4", "32 GiB", "0.58"),
       InstanceProduct(region, "db.r5.large", "Aurora PostgreSQL", "Single-AZ", "2", "16 GiB", "0.29"),
       InstanceProduct(region, "db.r5.xlarge", "Aurora PostgreSQL", "Single-AZ", "4", "32 GiB", "0.58") >>

AcuProducts(region) ==
    << AcuProduct(region, "Aurora MySQL", "0.12"),
       AcuProduct(region, "Aurora PostgreSQL", "0.13") >>

AcuIoProducts(region) ==
    << AcuIoProduct(region, "Aurora MySQL", "0.156"),
       AcuIoProduct(region, "Aurora PostgreSQL", "0.169") >>

StorageProducts(region) ==
    << StorageProduct(region, "Aurora MySQL", "0.10"),
       StorageProduct(region, "Aurora PostgreSQL", "0.10") >>

StorageIoProducts(region) ==
    << StorageIoProduct(region, "Aurora MySQL", "0.225"),
       StorageIoProduct(region, "Aurora PostgreSQL", "0.225") >>

IoProducts(region) == << IoProduct(region, "0.0000002") >>

\* The catalogs: what is listed for a region, in the catalog's order, and the
\* lookups that fail.
CatalogKinds ==
    {"full", "io_first", "no_acu", "no_storage", "no_io", "bare",
     "acu_down", "io_down", "storage_down", "unpriced"}

RegionProducts(kind, region) ==
    InstanceProducts(region) \o
    (CASE kind = "io_first" ->
              AcuIoProducts(region) \o AcuProducts(region) \o StorageIoProducts(region) \o
              StorageProducts(region) \o IoProducts(region)
       [] kind = "no_acu" ->
              StorageProducts(region) \o StorageIoProducts(region) \o IoProducts(region)
       [] kind = "no_storage" ->
              AcuProducts(region) \o AcuIoProducts(region) \o IoProducts(region)
       [] kind = "no_io" ->
              AcuProducts(region) \o AcuIoProducts(region) \o StorageProducts(region) \o
              StorageIoProducts(region)
       [] kind = "bare" -> << >>
       [] kind = "unpriced" ->
              << AcuProduct(region, "Aurora MySQL", "N/A"),
                 AcuProduct(region, "Aurora PostgreSQL", "0.13") >> \o
              AcuIoProducts(region) \o StorageProducts(region) \o
              StorageIoProducts(region) \o IoProducts(region)
       [] OTHER ->
              AcuProducts(region) \o AcuIoProducts(region) \o StorageProducts(region) \o
              StorageIoProducts(region) \o IoProducts(region))

RegionDown(kind, region) ==
    CASE kind = "acu_down" -> {acu_filters(region, "Aurora MySQL", "standard"),
                               acu_filters(region, "Aurora PostgreSQL", "standard")}
      [] kind = "io_down" -> {io_filters(region)}
      [] kind = "storage_down" -> {storage_filters(region, "Aurora MySQL", "standard"),
                                   storage_filters(region, "Aurora PostgreSQL", "standard")}
      [] OTHER -> {}

RECURSIVE CatalogOf(_, _)
CatalogOf(kind, names) ==
    IF names = << >> THEN << >>
    ELSE RegionProducts(kind, Head(names)) \o CatalogOf(kind, Tail(names))

\* -- instances and their telemetry ---------------------------------------
Series(values) == [raise |-> FALSE, Maximum |-> values]

Unavailable == [raise |-> TRUE, Maximum |-> << >>]

Telemetry(cpu, rd, wr) == [CPUUtilization |-> cpu, ReadIOPS |-> rd, WriteIOPS |-> wr]

\* an instance as the inventory lists it: no SecondaryAvailabilityZone key
\* unless it has a standby
Instance(class, engine, version, storage) ==
    [DBInstanceClass |-> class, Engine |-> engine, EngineVersion |-> version,
     DBInstanceStatus |-> "available", AllocatedStorage |-> RInt(storage)]

WithStandby(instance, zone) == instance @@ [SecondaryAvailabilityZone |-> zone]

Profile(instance, telemetry) == [inst |-> instance, cw |-> telemetry]

DbId(i) == "db-" \o IntToStr(i)

\* the world of a run over the regions of `regionEnvs`, each [raise, profiles]
World(regionEnvs, kind, hourly_down) ==
    LET names == SubSeq(RegionNames, 1, Len(regionEnvs))
        at(r) == regionEnvs[CHOOSE i \in 1..Len(names) : names[i] = r]
    IN  [regions |-> names,
         rds |-> [r \in Range(names) |->
                     [raise |-> at(r).raise,
                      DBInstances |-> [i \in 1..Len(at(r).profiles) |->
                          at(r).profiles[i].inst @@ [DBInstanceIdentifier |-> DbId(i)]]]],
         cw |-> [r \in Range(names) |->
                    [id \in {DbId(i) : i \in 1..Len(at(r).profiles)} |->
                        at(r).profiles[CHOOSE i \in 1..Len(at(r).profiles) : DbId(i) = id].cw]],
         catalog |-> CatalogOf(kind, names),
         catalog_down |-> UNION {RegionDown(kind, r) : r \in Range(names)} \cup hourly_down]

Inventory(profiles) == [raise |-> FALSE, profiles |-> profiles]

InventoryDown == [raise |-> TRUE, profiles |-> << >>]

CpuValues == {RInt(0), ParseFloat("66.67"), RInt(100)}

IoValues == {RInt(40), RInt(200)}

CpuSeries == {Series(q) : q \in SeqsUpTo(CpuValues, MaxDatapoints)}

IoSeries == {Series(q) : q \in SeqsUpTo(IoValues, MaxDatapoints)}

Quiet == Series(<< >>)

VersionOf(engine) ==
    CASE engine = "mysql" -> "8.0.35"
      [] engine = "postgresql" -> "14.9"
      [] engine = "aurora-mysql" -> "3.04.0"
      [] OTHER -> "15.4"

Classes == {"db.r5.large", "db.r5.xlarge"}

\* an instance of each qualifying engine and class: no standby key, an empty
\* one, or a standby zone
Instances(engines, classes, storages) ==
    LET plain == {Instance(c, e, VersionOf(e), g) : c \in classes, e \in engines, g \in storages}
    IN  plain \cup {WithStandby(i, z) : i \in plain, z \in {"", "us-east-1b"}}

\* One region, one instance: every engine, class and topology against every
\* CPU series, with and without I/O datapoints.
WorldsCpu ==
    {World(<< Inventory(<< Profile(i, Telemetry(cpu, io[1], io[2])) >>) >>, kind, {}) :
        i \in Instances(required_engines, Classes, {100}),
        cpu \in CpuSeries,
        io \in {<<Quiet, Quiet>>, <<Series(<<RInt(40)>>), Series(<<RInt(200)>>)>>},
        kind \in {"full"}}

\* One region, one instance: an engine of each family against every pair of I/O
\* series.
WorldsIo ==
    {World(<< Inventory(<< Profile(Instance("db.r5.large", e, VersionOf(e), 100),
                                   Telemetry(Series(<<ParseFloat("66.67")>>), rd, wr)) >>) >>,
           "full", {}) :
        e \in {"postgresql", "aurora-postgresql"}, rd \in IoSeries, wr \in IoSeries}

\* One region, one instance: every catalog.
WorldsCatalog ==
    {World(<< Inventory(<< Profile(i, Telemetry(cpu, io[1], io[2])) >>) >>, kind, {}) :
        i \in Instances(required_engines, {"db.r5.large"}, {20}),
        cpu \in {Quiet, Series(<<RInt(100)>>)},
        io \in {<<Quiet, Quiet>>, <<Series(<<RInt(40)>>), Series(<<RInt(200)>>)>>},
        kind \in CatalogKinds}

\* The instances the inventories are made of: two ordinary ones, an Aurora
\* instance with a standby (no catalog entry), two the filter drops, one whose
\* telemetry call fails and one listed without an engine version.
InventoryProfiles ==
    { Profile(WithStandby(Instance("db.r5.large", "mysql", "8.0.35", 100), "us-east-1b"),
              Telemetry(Series(<<RInt(0), RInt(100)>>),
                        Series(<<RInt(40)>>), Series(<<RInt(200)>>))),
      Profile(Instance("db.r5.xlarge", "aurora-postgresql", "15.4", 20),
              Telemetry(Series(<<ParseFloat("66.67")>>), Quiet, Quiet)),
      Profile(WithStandby(Instance("db.r5.large", "aurora-mysql", "3.04.0", 20), "us-east-1c"),
              Telemetry(Series(<<RInt(100)>>), Quiet, Quiet)),
      Profile(Instance("db.r5.large", "oracle-ee", "19.0", 100),
              Telemetry(Quiet, Quiet, Quiet)),
      Profile(Instance("db.serverless", "aurora-mysql", "3.04.0", 20),
              Telemetry(Quiet, Quiet, Quiet)),
      Profile(Instance("db.r5.large", "postgresql", "14.9", 100),
              Telemetry(Series(<<RInt(100)>>), Unavailable, Quiet)),
      Profile([DBInstanceClass |-> "db.r5.large", Engine |-> "aurora-postgresql",
               DBInstanceStatus |-> "creating", AllocatedStorage |-> RInt(20)],
              Telemetry(Quiet, Quiet, Quiet)) }

\* One region: every inventory of up to MaxInstances of these, with the catalog
\* up, and with the first one's hourly-price lookup failing.
WorldsInventory ==
    {World(<< Inventory(ps) >>, "full", down) :
        ps \in SeqsUpTo(InventoryProfiles, MaxInstances),
        down \in {{}, {hourly_filters(RegionNames[1], "db.r5.large", "MySQL", "Multi-AZ")}}}

\* What a region can be in a run over several: its inventory call fails, it has
\* nothing, it has two instances, or its telemetry fails half-way.
RegionKinds ==
    LET a == Profile(WithStandby(Instance("db.r5.large", "mysql", "8.0.35", 100), "us-east-1b"),
                     Telemetry(Series(<<RInt(0), RInt(100)>>),
                               Series(<<RInt(40)>>), Series(<<RInt(200)>>)))
        b == Profile(Instance("db.r5.xlarge", "aurora-postgresql", "15.4", 20),
                     Telemetry(Series(<<ParseFloat("66.67")>>), Quiet, Quiet))
        c == Profile(Instance("db.r5.large", "postgresql", "14.9", 100),
                     Telemetry(Unavailable, Quiet, Quiet))
    IN  { InventoryDown, Inventory(<< >>), Inventory(<< b, a >>), Inventory(<< b, c >>) }

\* Up to MaxRegions regions, each of every kind.
WorldsRegions ==
    {World(rs, "full", {}) : rs \in SeqsUpTo(RegionKinds, MaxRegions) \ {<< >>}}

EngineVersions ==
    {"11.9", "12.15", "13.4", "13.6", "13.9", "13.10", "13.12", "14.2", "14.3", "14.10",
     "15.1", "15.2", "15.10", "16.1", "13", "13.6.1", "14.3.2",
     "2.11.2", "3.04.0", "1.22.2"}

\* One region, one instance: every engine with every version string.
WorldsVersions ==
    {World(<< Inventory(<< Profile(Instance("db.r5.large", e, v, 20),
                                   Telemetry(Quiet, Quiet, Quiet)) >>) >>, "full", {}) :
        e \in required_engines, v \in EngineVersions}

Worlds == WorldsCpu \cup WorldsIo \cup WorldsCatalog \cup WorldsInventory \cup
          WorldsRegions \cup WorldsVersions

Init ==
    /\ env \in Worlds
    /\ pc = "main"
    /\ regions = << >>
    /\ ri = 0
    /\ df = << >>
    /\ pricing_configs = << >>
    /\ idx = 0
    /\ metrics = << >>
    /\ ret = << >>
    /\ all_results = << >>
    /\ combined_df = << >>
    /\ catalog_calls = << >>
    /\ cw_calls = << >>
    /\ failed = {}

Spec == Init /\ [][Next]_vars

(***************************************************************************)
(* What the claims are stated over.                                        *)
(***************************************************************************)
\* the rows process_region hands to main, as it returns them
ProducedRows == Range(ret)

\* the rows main holds: the frames it kept and the combined output
KeptRows ==
    UNION {Range(all_results[i]) : i \in 1..Len(all_results)} \cup Range(combined_df)

\* the inventory's record of a row's instance
Listed(row) ==
    CHOOSE d \in Range(env.rds[row.Region].DBInstances) :
        d.DBInstanceIdentifier = row.DBInstanceIdentifier

\* the datapoints the telemetry service holds for a row's instance
Datapoints(row, metric) == env.cw[row.Region][row.DBInstanceIdentifier][metric].Maximum

\* the mean of the datapoints, 0 when there are none
MeanOrZero(values) == IF values = << >> THEN RInt(0) ELSE RDiv(RSum(values), RInt(Len(values)))

\* the instance has a secondary availability zone
HasStandby(row) ==
    /\ "SecondaryAvailabilityZone" \in DOMAIN Listed(row)
    /\ Listed(row).SecondaryAvailabilityZone \notin {"", None}

Half == [n |-> 1, d |-> 2]

\* floor(meanCPU * 1.5 * vcpu * 4 / 100), in integers
WholeUnits(meanCPU, vcpu) ==
    (meanCPU.n * 3 * vcpu.n * 4) \div (meanCPU.d * 2 * vcpu.d * 100)

\* C1: every produced row's acu_usage is floor(meanCPU * 1.5 * vcpu * 4 / 100) + 0.5,
\* meanCPU being the mean of the instance's hourly CPU maxima (0 without
\* datapoints) and vcpu the row's resolved vCPU count; zero CPU gives exactly
\* 0.5, and meanCPU = 66.67 with vcpu = 2 gives 8.5.
C1_UsageRate ==
    \A row \in ProducedRows :
        LET meanCPU == MeanOrZero(Datapoints(row, "CPUUtilization"))
        IN  /\ row.meanCPU = meanCPU
            /\ row.acu_usage = RAdd(RInt(WholeUnits(meanCPU, row.vcpu)), Half)
            /\ meanCPU = RInt(0) => row.acu_usage = Half
            /\ (meanCPU = [n |-> 6667, d |-> 100] /\ row.vcpu = RInt(2))
                   => row.acu_usage = [n |-> 17, d |-> 2]

C1_Witness ==
    \E row \in Range(combined_df) :
        /\ row.meanCPU = [n |-> 6667, d |-> 100]
        /\ row.vcpu = RInt(2)
        /\ row.acu_usage = [n |-> 17, d |-> 2]

VariantNames == <<"standard", "io_optimized", "savings_plan">>

\* the monthly cost column of a variant
CostOf(row, variant) == row["aurora_" \o variant \o "_monthly"]

\* C2: best_option is one of standard, io_optimized, savings_plan; its monthly
\* cost is the minimum of the three; among equal minima the earliest in that
\* order is the one named.
C2_BestOption ==
    \A row \in ProducedRows :
        \E k \in 1..3 :
            /\ row.best_option = VariantNames[k]
            /\ \A j \in 1..3 : ~RLess(CostOf(row, VariantNames[j]), CostOf(row, VariantNames[k]))
            /\ \A j \in 1..(k - 1) : CostOf(row, VariantNames[j]) # CostOf(row, VariantNames[k])

\* a tie at the minimum between standard and savings_plan, below io_optimized
C2_Witness ==
    \E row \in Range(combined_df) :
        /\ row.aurora_standard_monthly = row.aurora_savings_plan_monthly
        /\ RLess(row.aurora_standard_monthly, row.aurora_io_optimized_monthly)
        /\ row.best_option = "standard"

\* a row whose cheapest variant is the second of the three
C2_IoOptimizedWins ==
    \E row \in Range(combined_df) :
        /\ RLess(row.aurora_io_optimized_monthly, row.aurora_standard_monthly)
        /\ RLess(row.aurora_io_optimized_monthly, row.aurora_savings_plan_monthly)
        /\ row.best_option = "io_optimized"

\* the prices process_region resolves for a row's region and engine family
PricesOf(row, variant) ==
    aurora_pricing_configs(row.Region)[variant]
        [IF row.Engine \in {"mysql", "aurora-mysql"} THEN "Aurora MySQL" ELSE "Aurora PostgreSQL"]

\* usage_rate * unit_price * 730, the single-zone consumption-unit term
SingleZoneAcuCost(row, variant) ==
    RMul(RMul(row.acu_usage, PricesOf(row, variant).acu), RInt(730))

IoCost(row, variant) == RMul(RMul(row.IOPS, RInt(2628000)), PricesOf(row, variant).iops)

StorageCost(row, variant) == RMul(row.AllocatedStorage, PricesOf(row, variant).storage)

\* C3: in each variant's monthly cost the consumption-unit term of an instance
\* with a secondary availability zone is twice usage_rate * unit_price * 730,
\* that of an instance without one is once that, and the I/O and storage terms
\* are added undoubled.
C3_MultiZoneDoubles ==
    \A row \in ProducedRows :
        \A k \in 1..3 :
            LET v == VariantNames[k]
                single == SingleZoneAcuCost(row, v)
                acu_cost == IF HasStandby(row) THEN RAdd(single, single) ELSE single
            IN  CostOf(row, v) = RAdd(RAdd(acu_cost, IoCost(row, v)), StorageCost(row, v))

C3_Witness ==
    \E row \in Range(combined_df) :
        /\ HasStandby(row)
        /\ RLess(RInt(0), SingleZoneAcuCost(row, "standard"))
        /\ RLess(RInt(0), IoCost(row, "standard"))
        /\ RLess(RInt(0), StorageCost(row, "standard"))
        /\ row.aurora_standard_monthly =
               RAdd(RAdd(RMul(RInt(2), SingleZoneAcuCost(row, "standard")),
                         IoCost(row, "standard")), StorageCost(row, "standard"))

\* a listed instance that the inventory filter keeps
Qualifying(region) ==
    {d \in Range(env.rds[region].DBInstances) :
        d.Engine \in {"aurora-mysql", "mysql", "aurora-postgresql", "postgresql"}
        /\ d.DBInstanceClass # "db.serverless"}

\* the telemetry service has no datapoint of any of the three metrics
NoDatapoints(region, id) ==
    \A m \in {"CPUUtilization", "ReadIOPS", "WriteIOPS"} :
        ~env.cw[region][id][m].raise /\ env.cw[region][id][m].Maximum = << >>

\* something in the region does raise: the inventory call, a telemetry call
\* that is made, or an Aurora PostgreSQL instance listed without a version number
RaisesSomewhere(region) ==
    \/ env.rds[region].raise
    \/ \E d \in Qualifying(region) :
           \/ env.cw[region][d.DBInstanceIdentifier]["CPUUtilization"].raise
           \/ /\ d.Engine \in {"mysql", "postgresql"}
              /\ \E m \in {"ReadIOPS", "WriteIOPS"} :
                     env.cw[region][d.DBInstanceIdentifier][m].raise
           \/ d.Engine = "aurora-postgresql" /\ "EngineVersion" \notin DOMAIN d

\* process_region has just returned
Returned == pc = "returned"

\* C4: an instance without datapoints raises no error and has one row, with
\* meanCPU, maxCPU, meanReadIOPS and meanWriteIOPS all 0 (never NaN), usage
\* rate 0.5 and I/O rate 0.
C4_MissingTelemetryIsZero ==
    Returned =>
        /\ region_now \in failed => RaisesSomewhere(region_now)
        /\ region_now \notin failed =>
              \A d \in {q \in Qualifying(region_now) :
                            NoDatapoints(region_now, q.DBInstanceIdentifier)} :
                  \E row \in ProducedRows :
                      /\ row.DBInstanceIdentifier = d.DBInstanceIdentifier
                      /\ row.meanCPU = RInt(0)
                      /\ row.maxCPU = RInt(0)
                      /\ row.meanReadIOPS = RInt(0)
                      /\ row.meanWriteIOPS = RInt(0)
                      /\ row.acu_usage = Half
                      /\ row.IOPS = RInt(0)

C4_Witness ==
    /\ pc = "done"
    /\ \E row \in Range(combined_df) :
           /\ NoDatapoints(row.Region, row.DBInstanceIdentifier)
           /\ row.Engine = "mysql"
           /\ RLess(RInt(0), row.vcpu)
           /\ row.acu_usage = Half
           /\ row.IOPS = RInt(0)

\* what process_region yields for a region taken alone, from the services' answers
IsolatedRows(region) ==
    LET instances == SelectSeq(env.rds[region].DBInstances, qualifies)
        created == create_instance_dataframe(instances).df
        configs == aurora_pricing_configs(region)
        priced(row) ==
            LET info == row_price_info(region, row)
            IN  (IF info.raise THEN unpriced_cells(deployment_option_of(row))
                 ELSE priced_cells(info.value)) @@ row @@ [Region |-> region]
        measured(row) ==
            LET tm == env.cw[region][row.DBInstanceIdentifier]
                m == io_metrics(samples_io(row.Engine), tm["ReadIOPS"].Maximum,
                                tm["WriteIOPS"].Maximum) @@
                     cpu_metrics(row.DBInstanceIdentifier, tm["CPUUtilization"].Maximum)
                r == [c \in metric_columns |-> m[c]] @@ priced(row)
            IN  [acu_usage |-> acu_usage_of(r.meanCPU, r.vcpu),
                 IOPS |-> IOPS_of(r.meanReadIOPS, r.meanWriteIOPS)] @@ r
        costed(row) == monthly_costs(measured(row), configs) @@ measured(row)
    IN  [i \in 1..Len(created) |-> with_savings(costed(created[i]))]

\* the combined output of a run in which the failed regions are absent
RECURSIVE WithoutFailed(_)
WithoutFailed(names) ==
    IF names = << >> THEN << >>
    ELSE (IF Head(names) \in failed THEN << >> ELSE IsolatedRows(Head(names))) \o
         WithoutFailed(Tail(names))

\* C5: a region whose processing raises has no row in anything main keeps; the
\* combined output is the other regions' rows, in region order, each region's
\* as if it were processed alone; the run ends only after the last region.
C5_FailedRegionSkipped ==
    /\ Returned /\ region_now \in failed => ret = << >>
    /\ \A row \in KeptRows : row.Region \notin failed
    /\ pc = "done" => combined_df = WithoutFailed(regions)
    /\ pc = "done" => ri = Len(regions) + 1

\* a region that failed, between two regions whose rows are in the output
C5_Witness ==
    /\ pc = "done"
    /\ \E i, j, k \in 1..Len(regions) :
           /\ i < j /\ j < k
           /\ regions[j] \in failed
           /\ \E row \in Range(combined_df) : row.Region = regions[i]
           /\ \E row \in Range(combined_df) : row.Region = regions[k]

\* a telemetry request for a row's instance was made
Sampled(row, metric) ==
    <<row.Region, row.DBInstanceIdentifier, metric>> \in Range(cw_calls)

\* C6: an aurora-mysql or aurora-postgresql row has io_rate 0 whatever read
\* and write datapoints exist, and neither metric was requested for it; any
\* other row has io_rate (meanReadOps + meanWriteOps) * 1.5 over the datapoints
\* of its instance, both metrics having been requested.
C6_IoRateByEngineFamily ==
    \A row \in ProducedRows :
        IF row.Engine \in {"aurora-mysql", "aurora-postgresql"}
        THEN /\ row.IOPS = RInt(0)
             /\ ~Sampled(row, "ReadIOPS")
             /\ ~Sampled(row, "WriteIOPS")
        ELSE /\ row.IOPS = RMul(RAdd(MeanOrZero(Datapoints(row, "ReadIOPS")),
                                     MeanOrZero(Datapoints(row, "WriteIOPS"))),
                                [n |-> 3, d |-> 2])
             /\ Sampled(row, "ReadIOPS")
             /\ Sampled(row, "WriteIOPS")

C6_Witness ==
    \E row \in Range(combined_df) :
        /\ row.Engine = "aurora-postgresql"
        /\ Datapoints(row, "ReadIOPS") # << >>
        /\ Datapoints(row, "WriteIOPS") # << >>
        /\ row.IOPS = RInt(0)

\* a row of the other family with a positive I/O rate
C6_SampledRow ==
    \E row \in Range(combined_df) : row.Engine = "postgresql" /\ RLess(RInt(0), row.IOPS)

\* one catalog lookup taken alone: the price of its first match, 0 without one
Answers(Filters) == ~get_products(Filters).raise

OwnLookupIsPrice(component, Filters) ==
    LET found == get_products(Filters).PriceList
    IN  IF found = << >> THEN component = RInt(0)
        ELSE FloatOk(found[1].USD) => component = ParseFloat(found[1].USD)

\* C7: each price component of each engine and storage configuration is what
\* its own catalog lookup gives: 0 when the lookup has no match, the listed
\* price when it has one.
C7_ComponentIsOwnLookup ==
    pricing_configs # << >> =>
        \A e \in {"Aurora MySQL", "Aurora PostgreSQL"} :
            LET r == region_now
                std == pricing_configs["standard"][e]
                io == pricing_configs["io_optimized"][e]
            IN  /\ Answers(acu_filters(r, e, "standard")) =>
                       OwnLookupIsPrice(std.acu, acu_filters(r, e, "standard"))
                /\ Answers(io_filters(r)) => OwnLookupIsPrice(std.iops, io_filters(r))
                /\ Answers(storage_filters(r, e, "standard")) =>
                       OwnLookupIsPrice(std.storage, storage_filters(r, e, "standard"))
                /\ Answers(acu_filters(r, e, "io-optimized")) =>
                       OwnLookupIsPrice(io.acu, acu_filters(r, e, "io-optimized"))
                /\ Answers(storage_filters(r, e, "io-optimized")) =>
                       OwnLookupIsPrice(io.storage, storage_filters(r, e, "io-optimized"))

\* the catalog's answer to the hourly-price lookup of a row's instance
HourlyLookup(row) ==
    get_products(hourly_filters(
        row.Region, row.DBInstanceClass,
        CASE row.Engine = "mysql" -> "MySQL"
          [] row.Engine = "aurora-mysql" -> "Aurora MySQL"
          [] row.Engine = "postgresql" -> "PostgreSQL"
          [] OTHER -> "Aurora PostgreSQL",
        IF HasStandby(row) THEN "Multi-AZ" ELSE "Single-AZ"))

HourlyLookupFails(row) == HourlyLookup(row).raise \/ HourlyLookup(row).PriceList = << >>

\* C8: a failing hourly-price lookup does not fail the region; every qualifying
\* instance of a region that did not fail has its row; a row whose lookup
\* failed has price, vcpu, memory and monthly cost 0 and the topology of its
\* inventory record; every other row has the values of its own catalog entry.
C8_FailedLookupIsZeroRow ==
    /\ Returned =>
           /\ region_now \in failed => RaisesSomewhere(region_now)
           /\ region_now \notin failed =>
                  \A d \in Qualifying(region_now) :
                      \E row \in ProducedRows :
                          row.DBInstanceIdentifier = d.DBInstanceIdentifier
    /\ \A row \in ProducedRows :
           IF HourlyLookupFails(row)
           THEN /\ row.pricePerUnit = RInt(0)
                /\ row.vcpu = RInt(0)
                /\ row.memory = RInt(0)
                /\ row.pricePerMonth = RInt(0)
                /\ row.deploymentOption = IF HasStandby(row) THEN "Multi-AZ" ELSE "Single-AZ"
           ELSE LET entry == HourlyLookup(row).PriceList[1]
                IN  /\ row.pricePerUnit = ParseFloat(entry.USD)
                    /\ row.vcpu = ParseFloat(entry.attributes.vcpu)
                    /\ row.pricePerMonth = RMul(ParseFloat(entry.USD), RInt(730))
                    /\ row.deploymentOption = entry.attributes.deploymentOption

\* a lookup that raised and one without a match, beside a row that was priced
C8_Witness ==
    /\ pc = "done"
    /\ \E a, b \in Range(combined_df) :
           /\ a.Region = b.Region
           /\ HourlyLookup(a).raise
           /\ a.pricePerUnit = RInt(0) /\ a.vcpu = RInt(0)
           /\ ~HourlyLookupFails(b)
           /\ RLess(RInt(0), b.pricePerUnit)

C8_NoMatchWitness ==
    \E a \in Range(combined_df) :
        /\ ~HourlyLookup(a).raise
        /\ HourlyLookup(a).PriceList = << >>
        /\ a.vcpu = RInt(0)
        /\ a.deploymentOption = "Multi-AZ"

SavingsOfVariant(row, variant) ==
    CASE variant = "standard" -> row.savings_standard
      [] variant = "io_optimized" -> row.savings_io_optimized
      [] OTHER -> row.savings_plan

\* C9: the current monthly cost is the hourly price * 730; each variant's
\* savings is that minus the variant's monthly cost; max_savings is the largest
\* of the three savings, and it is the savings of the variant best_option names.
C9_SavingsAndMax ==
    \A row \in ProducedRows :
        /\ row.pricePerMonth = RMul(row.pricePerUnit, RInt(730))
        /\ \A k \in 1..3 :
               /\ SavingsOfVariant(row, VariantNames[k]) =
                      RSub(row.pricePerMonth, CostOf(row, VariantNames[k]))
               /\ ~RLess(row.max_savings, SavingsOfVariant(row, VariantNames[k]))
        /\ \E k \in 1..3 : row.max_savings = SavingsOfVariant(row, VariantNames[k])
        /\ row.max_savings = SavingsOfVariant(row, row.best_option)

C9_Witness ==
    \E row \in Range(combined_df) :
        /\ RLess(RInt(0), row.pricePerMonth)
        /\ row.best_option = "io_optimized"
        /\ row.max_savings = row.savings_io_optimized
        /\ RLess(row.savings_standard, row.max_savings)
        /\ RLess(row.savings_plan, row.max_savings)

\* the numeric fields of a version string
VersionFields(version) == StrSplit(version, ".")

HasMajorMinor(version) ==
    /\ Len(VersionFields(version)) >= 2
    /\ IsDigits(VersionFields(version)[1])
    /\ IsDigits(VersionFields(version)[2])

MajorOf(version) == DigitsVal(VersionFields(version)[1])

MinorOf(version) == DigitsVal(VersionFields(version)[2])

\* the minimum minor version of each major the serverless target supports
MinimumMinor == (13 :> 6) @@ (14 :> 3) @@ (15 :> 2)

\* C10: an aurora-postgresql row of major 13, 14 or 15 is flagged NeedsUpgrade
\* exactly when its minor version is, as a number, below the minimum of its
\* major; an aurora-mysql row exactly when its major version is below 3; a row
\* of another engine never.
C10_NeedsUpgradeNumeric ==
    \A row \in ProducedRows :
        LET v == row.EngineVersion
        IN  /\ (row.Engine = "aurora-postgresql" /\ HasMajorMinor(v)
                /\ MajorOf(v) \in DOMAIN MinimumMinor)
                   => (row.NeedsUpgrade <=> MinorOf(v) < MinimumMinor[MajorOf(v)])
            /\ (row.Engine = "aurora-mysql" /\ HasMajorMinor(v))
                   => (row.NeedsUpgrade <=> MajorOf(v) < 3)
            /\ row.Engine \in {"mysql", "postgresql"} => ~row.NeedsUpgrade

\* a Filters list of the hourly-price lookup (the only one naming an instance type)
IsHourlyLookup(filters) == \E i \in DOMAIN filters : filters[i].Field = "instanceType"

\* the hourly-price lookups sent to the catalog for a region, in the order sent;
\* a region is processed once in a run, so these are the lookups of its pass
HourlyCallsOf(region) ==
    SelectSeq(catalog_calls,
              LAMBDA f : IsHourlyLookup(f) /\ Filter("regionCode", region) \in Range(f))

\* the lookups the rows of a frame ask for, one per row, in row order
OnePerRow(region, rows) == [i \in DOMAIN rows |-> row_price_filters(region, rows[i])]

\* C11 as stated: within one region's processing pass the hourly-price lookup
\* goes to the catalog once per distinct (instance class, engine, deployment
\* topology): two instances of the region that agree on the three share one
\* lookup, and no lookup is sent twice for the same tuple.
C11_HourlyLookupOncePerTuple ==
    \A r \in Range(regions) :
        \A i, j \in DOMAIN HourlyCallsOf(r) :
            i # j => HourlyCallsOf(r)[i] # HourlyCallsOf(r)[j]

\* C11 as the code has it: within one region's processing pass the hourly-price
\* lookup goes to the catalog exactly once per instance row, in row order,
\* whether it returns or raises; nothing is reused between rows and nothing is
\* retried, so the lookups of a pass are as many as its rows.
C11_HourlyLookupOncePerRow ==
    /\ pc = "instance_pricing" =>
           HourlyCallsOf(region_now) = OnePerRow(region_now, SubSeq(df, 1, idx - 1))
    /\ pc \in {"metrics", "usage", "costs", "savings"} =>
           HourlyCallsOf(region_now) = OnePerRow(region_now, df)
    /\ (Returned /\ region_now \notin failed) =>
           HourlyCallsOf(region_now) = OnePerRow(region_now, ret)
    /\ \A k \in 1..Len(regions) : k > ri => HourlyCallsOf(regions[k]) = << >>

\* two instances of one region with the same class, engine and topology, both
\* priced: the same lookup has gone to the catalog twice
C11_Witness ==
    /\ pc = "metrics"
    /\ Len(df) >= 2
    /\ df[1].DBInstanceIdentifier # df[2].DBInstanceIdentifier
    /\ row_price_filters(region_now, df[1]) = row_price_filters(region_now, df[2])
    /\ df[1].pricePerUnit = df[2].pricePerUnit
    /\ RLess(RInt(0), df[1].pricePerUnit)
    /\ Len(HourlyCallsOf(region_now)) = 2
    /\ HourlyCallsOf(region_now)[1] = HourlyCallsOf(region_now)[2]

\* the same with a lookup that raises: it is sent for each of the two rows
C11_FailedTwice ==
    /\ pc = "metrics"
    /\ Len(df) >= 2
    /\ row_price_info(region_now, df[1]).raise
    /\ row_price_filters(region_now, df[1]) = row_price_filters(region_now, df[2])
    /\ Len(HourlyCallsOf(region_now)) = 2

\* the catalog prices a row's costs are computed from are all non-negative
NonNegativePrices(row) ==
    \A k \in 1..3 :
        /\ ~RLess(PricesOf(row, VariantNames[k]).acu, RInt(0))
        /\ ~RLess(PricesOf(row, VariantNames[k]).iops, RInt(0))
        /\ ~RLess(PricesOf(row, VariantNames[k]).storage, RInt(0))

\* 0.65 as a fraction
Discounted == [n |-> 13, d |-> 20]

\* C12: for every row with non-negative catalog prices the savings_plan variant
\* is priced with the standard I/O and storage prices and 0.65 of the standard
\* unit price, the usage rate is at least 0.5, the savings_plan monthly cost is
\* never above the standard monthly cost and is strictly below it whenever the
\* standard unit price is positive; so best_option is standard only when the
\* standard unit price resolved to zero, where the two costs tie.
C12_SavingsPlanNeverAboveStandard ==
    \A row \in ProducedRows :
        NonNegativePrices(row) =>
            LET std == PricesOf(row, "standard")
                sp == PricesOf(row, "savings_plan")
            IN  /\ sp.iops = std.iops
                /\ sp.storage = std.storage
                /\ sp.acu = RMul(std.acu, Discounted)
                /\ ~RLess(row.acu_usage, Half)
                /\ ~RLess(row.aurora_standard_monthly, row.aurora_savings_plan_monthly)
                /\ RLess(RInt(0), std.acu) =>
                       RLess(row.aurora_savings_plan_monthly, row.aurora_standard_monthly)
                /\ row.best_option = "standard" =>
                       /\ std.acu = RInt(0)
                       /\ row.aurora_savings_plan_monthly = row.aurora_standard_monthly

\* a row with a positive standard unit price and I/O of its own: savings_plan
\* is strictly cheaper than standard
C12_Witness ==
    \E row \in ProducedRows :
        /\ NonNegativePrices(row)
        /\ RLess(RInt(0), PricesOf(row, "standard").acu)
        /\ RLess(RInt(0), row.IOPS)
        /\ RLess(row.aurora_savings_plan_monthly, row.aurora_standard_monthly)
        /\ row.best_option # "standard"

\* a row whose standard unit price resolved to zero: standard wins the tie
C12_StandardWinsAtZero ==
    \E row \in ProducedRows :
        /\ NonNegativePrices(row)
        /\ PricesOf(row, "standard").acu = RInt(0)
        /\ row.aurora_savings_plan_monthly = row.aurora_standard_monthly
        /\ row.best_option = "standard"

====
